---- MODULE Spec2Model ----
(***************************************************************************)
(* The voice conversation orchestrator of src/chatbot-temp/static/chat.js  *)
(* as a state machine.  The script runs on one event loop: every action    *)
(* below is one task of that loop (a DOM event handler, or the             *)
(* continuation of an async function after an await), run to its next      *)
(* suspension point.  The browser objects the script drives                *)
(* (speechSynthesis, the Audio element, SpeechRecognition, getUserMedia /  *)
(* MediaRecorder, fetch, setTimeout) are modelled by the events they       *)
(* deliver back to the script.                                             *)
(*                                                                         *)
(* Abstractions: texts are short sequences of tokens; the DOM is reduced   *)
(* to the assistant messages that carry a speak button (updateSpeakButton  *)
(* and the CSS classes are not state of the orchestration); the body of a  *)
(* fetch response (response.json(), response.text()) is delivered in the   *)
(* same task as the response.                                              *)
(***************************************************************************)
EXTENDS Integers, Sequences, FiniteSets, TLC

\* ---------------------------------------------------------------- bounds
\* assistant messages added to the conversation (messageIdCounter)
MaxMsgs == 2
\* requests / platform operations of one kind pending at the same time
MaxPending == 2
\* cancelled utterances whose terminal event is still to be delivered
MaxStale == 2
\* user actions (clicks, edits, utterances) in one run
MaxUserActions == 3

\* ---------------------------------------------------------------- texts
\* A text is a sequence of tokens: a word, a markdown formatting character
\* ("*"), a newline ("NL"), an HTML tag ("<br>") or a blank (" ").
FormatChars == {"#", "*", "_", "~"}
HtmlTags == {"<br>"}

RECURSIVE StripTokens(_, _)
StripTokens(t, drop) ==
    IF t = <<>> THEN <<>>
    ELSE IF Head(t) \in drop THEN StripTokens(Tail(t), drop)
    ELSE <<Head(t)>> \o StripTokens(Tail(t), drop)

RECURSIVE NewlinesToPauses(_)
NewlinesToPauses(t) ==
    IF t = <<>> THEN <<>>
    ELSE IF Head(t) = "NL"
         THEN IF Tail(t) # <<>> /\ Head(Tail(t)) = "NL"
              THEN NewlinesToPauses(Tail(t))
              ELSE <<". ">> \o NewlinesToPauses(Tail(t))
         ELSE <<Head(t)>> \o NewlinesToPauses(Tail(t))

\* speakText's cleanText: formatting characters and HTML tags are removed,
\* every run of newlines becomes one pause.
CleanText(t) == NewlinesToPauses(StripTokens(StripTokens(t, FormatChars), HtmlTags))

RECURSIVE TrimLeft(_)
TrimLeft(t) == IF t # <<>> /\ Head(t) = " " THEN TrimLeft(Tail(t)) ELSE t

RECURSIVE Reverse(_)
Reverse(t) == IF t = <<>> THEN <<>> ELSE Reverse(Tail(t)) \o <<Head(t)>>

\* String.prototype.trim
Trim(t) == Reverse(TrimLeft(Reverse(TrimLeft(t))))

\* the voice-mode greeting
GREETING == <<"Voice mode on. How can I help you?">>
\* reply texts of the chat backend
Replies == {<<"*", "Hi", "*", "NL", "NL", "there", "<br>">>}
\* what the user types
Inputs == {<<" ">>, <<" ", "hello", " ">>}
\* final transcripts of the recogniser and of the transcription service: a
\* word, or white space only
Transcripts == {<<"hello">>, <<" ">>}
\* session identifiers the backend hands out
SessionIds == {"abc"}
NoSession == "null"
\* non-2xx statuses of the premium synthesis service
NonOkStatuses == {401, 404, 500, 503}

\* msgId null (the voice-mode greeting has no message)
NoMsg == 0

\* the texts of addErrorMessage
NoError == ""
MicError == "Could not access microphone. Please check permissions."
TranscribeErrors ==
    {"Transcription failed: Unknown error", "Failed to transcribe audio"}
\* a detail string of the chat backend, and the absent detail
BackendDetails == {"Rate limit exceeded"}
NoDetail == ""
NotJsonError == "Network error or server failed to return JSON."
NoDetailError == "Failed to connect to backend."
NetworkError == "Backend connection failed or timed out."
EmptyResponseError == "Received empty response from server."
\* the text of the alert of startListening
UnsupportedAlert ==
    "Your browser does not support Speech-to-Text. Please use Chrome, Edge, or Safari."

\* ---------------------------------------------------------------- state
VARIABLES
    \* --- chat.js variables
    useHDMode, autoSpeak, isSpeaking, currentSpeakingMsgId, voiceModeActive,
    currentAudio, currentSessionId, storedSessionId, isRecording,
    mediaRecorder, elevenLabsAvailable, sendDisabled, userInput,
    messageIdCounter, messages, autoSpeakChecked,
    \* --- host platform
    synthSupported, recogSupported, utt, staleUtt, abortedPlays, recState,
    gumPending, orphanRecorders, stoppedRecorders, leakedStreams,
    \* --- requests in flight and timers
    ttsInFlight, chatInFlight, statusInFlight, transcribeInFlight,
    autoSendTimers, autoStopTimers, loadsInFlight,
    \* --- history variables of the verification
    lastOp, lastSpeakText, markedUnavailable, statusQueried, openSpeaks,
    supersededUploads, inputSuperseded, errorShown, lastReplySid,
    userActions, env

vars == <<useHDMode, autoSpeak, isSpeaking, currentSpeakingMsgId, voiceModeActive,
          currentAudio, currentSessionId, storedSessionId, isRecording,
          mediaRecorder, elevenLabsAvailable, sendDisabled, userInput,
          messageIdCounter, messages, autoSpeakChecked,
          synthSupported, recogSupported, utt, staleUtt, abortedPlays, recState,
          gumPending, orphanRecorders, stoppedRecorders, leakedStreams,
          ttsInFlight, chatInFlight, statusInFlight, transcribeInFlight,
          autoSendTimers, autoStopTimers, loadsInFlight,
          lastOp, lastSpeakText, markedUnavailable, statusQueried, openSpeaks,
          supersededUploads, inputSuperseded, errorShown, lastReplySid,
          userActions, env>>

\* everything but the history variables
progVars == <<useHDMode, autoSpeak, isSpeaking, currentSpeakingMsgId, voiceModeActive,
          currentAudio, currentSessionId, storedSessionId, isRecording,
          mediaRecorder, elevenLabsAvailable, sendDisabled, userInput,
          messageIdCounter, messages, autoSpeakChecked,
          synthSupported, recogSupported, utt, staleUtt, abortedPlays, recState,
          gumPending, orphanRecorders, stoppedRecorders, leakedStreams,
          ttsInFlight, chatInFlight, statusInFlight, transcribeInFlight,
          autoSendTimers, autoStopTimers, loadsInFlight>>

\* An Audio element: st is "null" (currentAudio === null), "loading" (play()
\* called, its promise pending), "playing", or "inert" (ended, failed or
\* refused: it can neither sound nor deliver an event any more).  barged is
\* a history field: the element was sounding when a capture start was called.
NoAudio == [text |-> <<>>, msgId |-> NoMsg, st |-> "null", barged |-> FALSE]
InertAudio == [text |-> <<>>, msgId |-> NoMsg, st |-> "inert", barged |-> FALSE]

\* The utterance at the head of the speechSynthesis queue: st is "none",
\* "pending" (queued by speak(), not started) or "speaking".
NoUtt == [text |-> <<>>, msgId |-> NoMsg, st |-> "none", barged |-> FALSE]

NoSpeak == [text |-> <<>>, msgId |-> NoMsg]

\* The state as one record, so that a handler's calls compose.  lastSpeakText
\* is a history field: the arguments of the speakText call of the step, if
\* the step makes one (the console.log at speakText's entry).  statusQueried
\* records that /api/status has been requested.  openSpeaks counts the speak
\* calls made (speakWithElevenLabs, or speakText called by a handler other
\* than a premium fallback) minus the terminal callbacks run (utterance.onend,
\* utterance.onerror, currentAudio.onended; currentAudio.onerror hands the
\* text to speakText, whose utterance delivers the terminal event).
\* supersededUploads counts the stopped recordings, not yet transcribed, that
\* were stopped before a later startListening call; inputSuperseded tells
\* that the input field holds the transcript of such a recording.
\* errorShown is the text addErrorMessage appends to the conversation in the
\* step, or the text of its alert, NoError if the step shows none.  lastReplySid is the session_id of
\* the last chat response that had a reply text and a session_id.
Now ==
    [useHDMode |-> useHDMode, autoSpeak |-> autoSpeak, isSpeaking |-> isSpeaking,
     currentSpeakingMsgId |-> currentSpeakingMsgId,
     voiceModeActive |-> voiceModeActive, currentAudio |-> currentAudio,
     currentSessionId |-> currentSessionId, storedSessionId |-> storedSessionId,
     isRecording |-> isRecording, mediaRecorder |-> mediaRecorder,
     elevenLabsAvailable |-> elevenLabsAvailable, sendDisabled |-> sendDisabled,
     userInput |-> userInput, messageIdCounter |-> messageIdCounter,
     messages |-> messages, autoSpeakChecked |-> autoSpeakChecked,
     utt |-> utt, staleUtt |-> staleUtt, abortedPlays |-> abortedPlays,
     recState |-> recState, gumPending |-> gumPending,
     orphanRecorders |-> orphanRecorders, stoppedRecorders |-> stoppedRecorders,
     ttsInFlight |-> ttsInFlight, chatInFlight |-> chatInFlight,
     statusInFlight |-> statusInFlight, transcribeInFlight |-> transcribeInFlight,
     autoSendTimers |-> autoSendTimers, autoStopTimers |-> autoStopTimers,
     loadsInFlight |-> loadsInFlight, leakedStreams |-> leakedStreams, lastReplySid |-> lastReplySid,
     lastSpeakText |-> NoSpeak, markedUnavailable |-> markedUnavailable,
     statusQueried |-> statusQueried, openSpeaks |-> openSpeaks,
     supersededUploads |-> supersededUploads, inputSuperseded |-> inputSuperseded,
     errorShown |-> NoError,
     userActions |-> userActions]

\* the user actions of a behaviour: the profile without voice and capture
\* events is small and affords two more
UserActionBudget ==
    IF env = "sessions" THEN MaxUserActions + 2 ELSE MaxUserActions

WithinBounds(s) ==
    /\ s.messageIdCounter <= MaxMsgs
    /\ s.userActions <= UserActionBudget
    /\ Len(s.loadsInFlight) <= MaxPending
    /\ s.staleUtt["pending"] + s.staleUtt["speaking"] <= MaxStale
    /\ s.gumPending <= MaxPending
    /\ s.orphanRecorders + s.stoppedRecorders + s.transcribeInFlight
          + s.leakedStreams <= MaxPending
    /\ Len(s.ttsInFlight) <= MaxPending
    /\ Len(s.chatInFlight) <= MaxPending
    /\ s.statusInFlight <= MaxPending
    /\ s.autoSendTimers <= MaxPending
    /\ s.autoStopTimers <= MaxPending

\* The step to state s, named op.
Commit(s, op) ==
    /\ WithinBounds(s)
    /\ useHDMode' = s.useHDMode
    /\ autoSpeak' = s.autoSpeak
    /\ isSpeaking' = s.isSpeaking
    /\ currentSpeakingMsgId' = s.currentSpeakingMsgId
    /\ voiceModeActive' = s.voiceModeActive
    /\ currentAudio' = s.currentAudio
    /\ currentSessionId' = s.currentSessionId
    /\ storedSessionId' = s.storedSessionId
    /\ isRecording' = s.isRecording
    /\ mediaRecorder' = s.mediaRecorder
    /\ elevenLabsAvailable' = s.elevenLabsAvailable
    /\ sendDisabled' = s.sendDisabled
    /\ userInput' = s.userInput
    /\ messageIdCounter' = s.messageIdCounter
    /\ messages' = s.messages
    /\ autoSpeakChecked' = s.autoSpeakChecked
    /\ utt' = s.utt
    /\ staleUtt' = s.staleUtt
    /\ abortedPlays' = s.abortedPlays
    /\ recState' = s.recState
    /\ gumPending' = s.gumPending
    /\ orphanRecorders' = s.orphanRecorders
    /\ stoppedRecorders' = s.stoppedRecorders
    /\ ttsInFlight' = s.ttsInFlight
    /\ chatInFlight' = s.chatInFlight
    /\ statusInFlight' = s.statusInFlight
    /\ transcribeInFlight' = s.transcribeInFlight
    /\ autoSendTimers' = s.autoSendTimers
    /\ autoStopTimers' = s.autoStopTimers
    /\ lastSpeakText' = s.lastSpeakText
    /\ markedUnavailable' = s.markedUnavailable
    /\ statusQueried' = s.statusQueried
    /\ openSpeaks' = s.openSpeaks
    /\ supersededUploads' = s.supersededUploads
    /\ inputSuperseded' = s.inputSuperseded
    /\ errorShown' = s.errorShown
    /\ loadsInFlight' = s.loadsInFlight
    /\ leakedStreams' = s.leakedStreams
    /\ lastReplySid' = s.lastReplySid
    /\ userActions' = s.userActions
    /\ lastOp' = op
    /\ UNCHANGED <<synthSupported, recogSupported, env>>

\* the state at the start of a handler the user triggers
ByUser == [Now EXCEPT !.userActions = @ + 1]

RemoveAt(q, i) == SubSeq(q, 1, i - 1) \o SubSeq(q, i + 1, Len(q))

\* ------------------------------------------------- local voice rendering
\* window.speechSynthesis.cancel(): the queue is emptied; the utterance
\* removed gets its terminal event later.
Cancel(s) ==
    IF s.utt.st = "none" THEN s
    ELSE [s EXCEPT !.utt = NoUtt, !.staleUtt[s.utt.st] = @ + 1]

speakText(s, text, msgId) ==
    LET s0 == [s EXCEPT !.lastSpeakText = [text |-> text, msgId |-> msgId]]
    IN  IF ~synthSupported THEN s0
        ELSE [Cancel(s0) EXCEPT !.utt = [text |-> CleanText(text), msgId |-> msgId,
                                         st |-> "pending", barged |-> FALSE]]

stopSpeaking(s) ==
    IF synthSupported
    THEN [Cancel(s) EXCEPT !.isSpeaking = FALSE, !.currentSpeakingMsgId = NoMsg]
    ELSE s

\* ------------------------------------------------------ premium playback
stopSpeakingElevenLabs(s) ==
    LET a == s.currentAudio
        s1 == IF a.st = "null" THEN s
              ELSE [s EXCEPT !.currentAudio = NoAudio,
                             !.abortedPlays =
                                 IF a.st = "loading"
                                 THEN @ \cup {[text |-> a.text, msgId |-> a.msgId]}
                                 ELSE @]
    IN  stopSpeaking(s1)

\* response.status === 401 alone
IsDefinitiveFailure_Only401(status) == status = 401

\* response.status === 401 || response.status === 500
IsDefinitiveFailure(status) == status = 401 \/ status = 500

\* speakWithElevenLabs without the test of elevenLabsAvailable
speakWithElevenLabs_AlwaysPremium(s, text, msgId) ==
    [s EXCEPT !.openSpeaks = @ + 1,
              !.ttsInFlight = Append(@, [text |-> text, msgId |-> msgId])]

\* speakWithElevenLabs up to its first await
speakWithElevenLabs(s, text, msgId) ==
    LET s0 == [s EXCEPT !.openSpeaks = @ + 1]
    IN  IF ~s0.elevenLabsAvailable THEN speakText(s0, text, msgId)
        ELSE [s0 EXCEPT !.ttsInFlight = Append(@, [text |-> text, msgId |-> msgId])]

\* --------------------------------------------------------------- capture
\* stopListening without the mediaRecorder.state === 'recording' test
stopListening_NoStateTest(s) ==
    IF s.useHDMode /\ s.mediaRecorder # "null"
    THEN [s EXCEPT !.mediaRecorder = "inactive", !.stoppedRecorders = @ + 1,
                   !.isRecording = FALSE]
    ELSE IF recogSupported
         THEN [s EXCEPT !.recState = IF @ \in {"starting", "listening"}
                                     THEN "stopping" ELSE @]
         ELSE s

stopListening(s) ==
    IF s.useHDMode /\ s.mediaRecorder = "recording"
    THEN [s EXCEPT !.mediaRecorder = "inactive", !.stoppedRecorders = @ + 1,
                   !.isRecording = FALSE]
    ELSE IF recogSupported
         THEN [s EXCEPT !.recState = IF @ \in {"starting", "listening"}
                                     THEN "stopping" ELSE @]
         ELSE s

AudioActive(a) == a.st \in {"loading", "playing"}
UttActive(u) == u.st # "none"

\* startListening without the alert of the host that has no recogniser
startListening_NoAlert(s) ==
    LET s0 == [s EXCEPT !.currentAudio.barged = AudioActive(s.currentAudio),
                        !.utt.barged = UttActive(s.utt),
                        !.supersededUploads =
                            s.stoppedRecorders + s.transcribeInFlight]
        s1 == stopSpeakingElevenLabs(s0)
        s2 == IF synthSupported THEN Cancel(s1) ELSE s1
    IN  IF s2.useHDMode THEN [s2 EXCEPT !.gumPending = @ + 1]
        ELSE IF recogSupported /\ s2.recState = "idle"
             THEN [s2 EXCEPT !.recState = "starting"]
             ELSE s2

\* startListening acquiring the capture without the interruption of lines
\* 148-149
startListening_NoInterrupt(s) ==
    LET s0 == [s EXCEPT !.currentAudio.barged = AudioActive(s.currentAudio),
                        !.utt.barged = UttActive(s.utt),
                        !.supersededUploads =
                            s.stoppedRecorders + s.transcribeInFlight]
    IN  IF s0.useHDMode THEN [s0 EXCEPT !.gumPending = @ + 1]
        ELSE IF ~recogSupported THEN [s0 EXCEPT !.errorShown = UnsupportedAlert]
        ELSE IF s0.recState = "idle" THEN [s0 EXCEPT !.recState = "starting"]
        ELSE s0

\* startListening up to its first await.  The HD branch suspends in
\* getUserMedia; the STD branch calls recognition.start(), which throws
\* InvalidStateError when the recogniser is already started, or alerts
\* when the host has no recogniser.
startListening(s) ==
    LET s0 == [s EXCEPT !.currentAudio.barged = AudioActive(s.currentAudio),
                        !.utt.barged = UttActive(s.utt),
                        !.supersededUploads =
                            s.stoppedRecorders + s.transcribeInFlight]
        s1 == stopSpeakingElevenLabs(s0)
        s2 == IF synthSupported THEN Cancel(s1) ELSE s1
    IN  IF s2.useHDMode THEN [s2 EXCEPT !.gumPending = @ + 1]
        ELSE IF ~recogSupported THEN [s2 EXCEPT !.errorShown = UnsupportedAlert]
        ELSE IF s2.recState = "idle" THEN [s2 EXCEPT !.recState = "starting"]
        ELSE s2

\* ------------------------------------------------------------- handlers
\* utterance.onend re-arming whether or not voice mode is on
utteranceOnEnd_AlwaysRearm(s) ==
    LET s1 == [s EXCEPT !.isSpeaking = FALSE, !.currentSpeakingMsgId = NoMsg,
                        !.openSpeaks = @ - 1]
    IN  IF ~s1.isRecording THEN startListening(s1) ELSE s1

\* utterance.onend
utteranceOnEnd(s) ==
    LET s1 == [s EXCEPT !.isSpeaking = FALSE, !.currentSpeakingMsgId = NoMsg,
                        !.openSpeaks = @ - 1]
    IN  IF s1.voiceModeActive /\ ~s1.isRecording THEN startListening(s1) ELSE s1

\* utterance.onerror
utteranceOnError(s) ==
    [s EXCEPT !.isSpeaking = FALSE, !.currentSpeakingMsgId = NoMsg,
              !.openSpeaks = @ - 1]

\* currentAudio.onended without the re-arm of the capture
audioOnEnded_NoRearm(s) ==
    [s EXCEPT !.isSpeaking = FALSE, !.currentSpeakingMsgId = NoMsg,
              !.openSpeaks = @ - 1]

\* currentAudio.onended
audioOnEnded(s) ==
    LET s1 == [s EXCEPT !.isSpeaking = FALSE, !.currentSpeakingMsgId = NoMsg,
                        !.openSpeaks = @ - 1]
    IN  IF s1.voiceModeActive /\ ~s1.isRecording THEN startListening(s1) ELSE s1

\* currentAudio.onerror
audioOnError(s, text, msgId) ==
    speakText([s EXCEPT !.isSpeaking = FALSE, !.currentSpeakingMsgId = NoMsg],
              text, msgId)

\* sendMessage without the sendBtn.disabled test
sendMessage_NoGate(s) ==
    LET text == Trim(s.userInput)
    IN  IF text = <<>> THEN s
        ELSE [s EXCEPT !.userInput = <<>>, !.inputSuperseded = FALSE,
                       !.sendDisabled = TRUE,
                       !.chatInFlight =
                           Append(@, [message |-> text,
                                      session_id |-> s.currentSessionId])]

\* sendMessage up to its await of the chat request
sendMessage(s) ==
    LET text == Trim(s.userInput)
    IN  IF text = <<>> \/ s.sendDisabled THEN s
        ELSE [s EXCEPT !.userInput = <<>>, !.inputSuperseded = FALSE,
                       !.sendDisabled = TRUE,
                       !.chatInFlight =
                           Append(@, [message |-> text,
                                      session_id |-> s.currentSessionId])]

\* sendMessage after a successful response that shows the reply only when it
\* is not spoken
chatReplied_SpokenNotShown(s, reply, sid) ==
    LET s1 == [s EXCEPT !.sendDisabled = FALSE]
        msgId == s1.messageIdCounter + 1
        s2 == [s1 EXCEPT !.messageIdCounter = msgId]
        s3 == IF s2.autoSpeak
              THEN IF s2.voiceModeActive
                   THEN speakWithElevenLabs(s2, reply, msgId)
                   ELSE speakText([s2 EXCEPT !.openSpeaks = @ + 1], reply, msgId)
              ELSE [s2 EXCEPT !.messages = @ \cup {[id |-> msgId, text |-> reply]}]
    IN  IF reply = <<>> THEN s1
        ELSE IF sid # NoSession
             THEN [s3 EXCEPT !.currentSessionId = sid, !.storedSessionId = sid]
             ELSE s3

\* sendMessage after a successful response that leaves data.session_id aside
chatReplied_NoSessionStore(s, reply, sid) ==
    LET s1 == [s EXCEPT !.sendDisabled = FALSE]
        msgId == s1.messageIdCounter + 1
        s2 == [s1 EXCEPT !.messageIdCounter = msgId,
                         !.messages = @ \cup {[id |-> msgId, text |-> reply]}]
    IN  IF reply = <<>> THEN s1
        ELSE IF s2.autoSpeak
             THEN IF s2.voiceModeActive
                  THEN speakWithElevenLabs(s2, reply, msgId)
                  ELSE speakText([s2 EXCEPT !.openSpeaks = @ + 1], reply, msgId)
             ELSE s2

\* sendMessage after a successful response: data.response is reply (the
\* empty text when absent), data.session_id is sid (NoSession when absent)
chatReplied(s, reply, sid) ==
    LET s1 == [s EXCEPT !.sendDisabled = FALSE]
        msgId == s1.messageIdCounter + 1
        s2 == [s1 EXCEPT !.messageIdCounter = msgId,
                         !.messages = @ \cup {[id |-> msgId, text |-> reply]}]
        s3 == IF s2.autoSpeak
              THEN IF s2.voiceModeActive
                   THEN speakWithElevenLabs(s2, reply, msgId)
                   ELSE speakText([s2 EXCEPT !.openSpeaks = @ + 1], reply, msgId)
              ELSE s2
    IN  IF reply = <<>> THEN s1
        ELSE IF sid # NoSession
             THEN [s3 EXCEPT !.currentSessionId = sid, !.storedSessionId = sid]
             ELSE s3

\* ----------------------------------------------------------- environment
\* The event classes the environment produces in a run of each profile.
\* The profiles bound the exploration: a run uses the typed chat and the
\* playback controls, or the microphone without playback, or the hands-free
\* loop of voice mode with the inline strategy, or voice mode and the
\* microphone with both strategies and no chat traffic, or the typed chat
\* and the history list.
Profiles == {"playback", "capture", "handsfree", "bargein", "sessions"}

EventClasses ==
    CASE env = "playback" -> {"typing", "chat", "voice", "controls", "synthesis"}
      [] env = "capture" -> {"typing", "chat", "mic", "strategy", "rawclip",
                             "recorderfault", "inline", "interim"}
      [] env = "handsfree" -> {"chat", "voice", "synthesis", "mic", "inline"}
      [] env = "bargein" -> {"voice", "synthesis", "mic", "strategy", "rawclip", "inline"}
      [] env = "sessions" -> {"typing", "chat", "history"}

\* ------------------------------------------------------------------ Init
\* The state when the DOMContentLoaded handler has run.  The host may or
\* may not offer speechSynthesis and SpeechRecognition; localStorage holds
\* no session id.
Init ==
    /\ useHDMode = FALSE /\ autoSpeak = FALSE /\ isSpeaking = FALSE
    /\ currentSpeakingMsgId = NoMsg /\ voiceModeActive = FALSE
    /\ currentAudio = NoAudio
    /\ storedSessionId = NoSession
    /\ currentSessionId = storedSessionId
    /\ isRecording = FALSE /\ mediaRecorder = "null"
    /\ elevenLabsAvailable = FALSE /\ sendDisabled = FALSE
    /\ userInput = <<>> /\ messageIdCounter = 0 /\ messages = {}
    /\ autoSpeakChecked = FALSE
    /\ synthSupported \in BOOLEAN /\ recogSupported \in BOOLEAN
    /\ utt = NoUtt /\ staleUtt = [k \in {"pending", "speaking"} |-> 0]
    /\ abortedPlays = {} /\ recState = "idle"
    /\ gumPending = 0 /\ orphanRecorders = 0 /\ stoppedRecorders = 0
    /\ leakedStreams = 0
    /\ ttsInFlight = <<>> /\ chatInFlight = <<>>
    /\ statusInFlight = 0 /\ transcribeInFlight = 0
    /\ autoSendTimers = 0 /\ autoStopTimers = 0 /\ loadsInFlight = <<>>
    /\ lastOp = "init" /\ lastSpeakText = NoSpeak /\ markedUnavailable = FALSE
    /\ statusQueried = FALSE /\ openSpeaks = 0
    /\ supersededUploads = 0 /\ inputSuperseded = FALSE /\ errorShown = NoError
    /\ lastReplySid = NoSession
    /\ userActions = 0
    /\ env \in Profiles

\* --------------------------------------------------------- user actions
HdToggleClick ==
    Commit([ByUser EXCEPT !.useHDMode = ~@], "-")

AutoSpeakChange ==
    Commit([ByUser EXCEPT !.autoSpeakChecked = ~@, !.autoSpeak = ~autoSpeakChecked], "-")

MicClick ==
    IF isRecording
    THEN Commit(stopListening(ByUser), "-")
    ELSE Commit(startListening(ByUser),
                IF currentAudio.st = "playing" \/ utt.st = "speaking"
                THEN "bargeIn" ELSE "-")

\* the user edits the input field (not possible while it is disabled)
TypeInput ==
    /\ ~sendDisabled
    /\ \E t \in Inputs :
          Commit([ByUser EXCEPT !.userInput = t, !.inputSuperseded = FALSE], "-")

\* send button click or Enter key
SendClick ==
    Commit(sendMessage(ByUser),
           IF sendDisabled THEN "sendRejected" ELSE "-")

NewChatClick ==
    Commit([stopSpeaking([ByUser EXCEPT !.currentSessionId = NoSession,
                                     !.storedSessionId = NoSession])
               EXCEPT !.messages = {}], "newChat")

\* loadSession(sessionId, force) up to its await
loadSession(s, sessionId, force) ==
    IF ~force /\ s.currentSessionId = sessionId THEN s
    ELSE [stopSpeaking(s) EXCEPT !.loadsInFlight = Append(@, sessionId)]

\* click on an item of the history list
HistoryItemClick ==
    \E sid \in SessionIds : Commit(loadSession(ByUser, sid, FALSE), "-")

\* the speak button of a displayed assistant message
SpeakButtonClick ==
    \E m \in messages :
        IF isSpeaking /\ currentSpeakingMsgId = m.id
        THEN Commit(stopSpeaking(ByUser), "-")
        ELSE Commit(speakText([ByUser EXCEPT !.openSpeaks = @ + 1], m.text, m.id),
                    "-")

VoiceModeClick ==
    LET s1 == [ByUser EXCEPT !.voiceModeActive = ~@]
    IN  IF s1.voiceModeActive
        THEN Commit([s1 EXCEPT !.statusInFlight = @ + 1, !.statusQueried = TRUE], "-")
        ELSE Commit([stopSpeakingElevenLabs(s1) EXCEPT !.autoSpeak = FALSE], "-")

\* ------------------------------------------- availability probe resolves
voiceModeProbed(s, available) ==
    speakWithElevenLabs([s EXCEPT !.statusInFlight = @ - 1,
                                  !.elevenLabsAvailable = available,
                                  !.autoSpeak = TRUE],
                        GREETING, NoMsg)

StatusResolved ==
    /\ statusInFlight > 0
    /\ \E available \in BOOLEAN : Commit(voiceModeProbed(Now, available), "-")

StatusFailed ==
    /\ statusInFlight > 0
    /\ Commit(voiceModeProbed(Now, FALSE), "-")

\* ------------------------------------- premium synthesis request resolves
\* speakWithElevenLabs after the await of fetch('/api/tts'), request r
ttsNotOk(s, r, status) ==
    LET s1 == IF IsDefinitiveFailure(status)
              THEN [s EXCEPT !.elevenLabsAvailable = FALSE,
                             !.markedUnavailable = TRUE]
              ELSE s
    IN  speakText(s1, r.text, r.msgId)

\* data.success && data.audio_base64, and the payload decodes
ttsAudioReady(s, r) ==
    [stopSpeakingElevenLabs(s) EXCEPT
        !.currentAudio = [text |-> r.text, msgId |-> r.msgId,
                          st |-> "loading", barged |-> FALSE],
        !.isSpeaking = TRUE,
        !.currentSpeakingMsgId = r.msgId]

\* data.success && data.audio_base64, and atob throws in base64ToBlob
ttsUndecodable(s, r) == speakText(stopSpeakingElevenLabs(s), r.text, r.msgId)

\* the branch returning without the fallback
ttsFallback_Silent(s, r) == s

\* no success or no audio in the response; fetch or response.json() throws
ttsFallback(s, r) == speakText(s, r.text, r.msgId)

StatusLabel(status) ==
    IF status = 401 THEN "tts401"
    ELSE IF status = 404 THEN "tts404"
    ELSE IF status = 500 THEN "tts500" ELSE "tts503"

TtsNotOkAt(i, status) ==
    Commit(ttsNotOk([Now EXCEPT !.ttsInFlight = RemoveAt(@, i)],
                    ttsInFlight[i], status), StatusLabel(status))

TtsNotOk ==
    \E i \in 1..Len(ttsInFlight) : \E status \in NonOkStatuses : TtsNotOkAt(i, status)

TtsAudio ==
    \E i \in 1..Len(ttsInFlight) :
        Commit(ttsAudioReady([Now EXCEPT !.ttsInFlight = RemoveAt(@, i)],
                             ttsInFlight[i]), "-")

TtsUndecodableAt(i) ==
    Commit(ttsUndecodable([Now EXCEPT !.ttsInFlight = RemoveAt(@, i)],
                          ttsInFlight[i]), "premiumFailed")

TtsUndecodable == \E i \in 1..Len(ttsInFlight) : TtsUndecodableAt(i)

TtsNoAudioAt(i) ==
    Commit(ttsFallback([Now EXCEPT !.ttsInFlight = RemoveAt(@, i)],
                       ttsInFlight[i]), "premiumFailed")

TtsNoAudio == \E i \in 1..Len(ttsInFlight) : TtsNoAudioAt(i)

TtsThrowsAt(i) ==
    Commit(ttsFallback([Now EXCEPT !.ttsInFlight = RemoveAt(@, i)],
                       ttsInFlight[i]), "premiumFailed")

TtsThrows == \E i \in 1..Len(ttsInFlight) : TtsThrowsAt(i)

\* ------------------------------------------------- Audio element events
\* the promise of currentAudio.play() resolves: the audio sounds
PlayResolved ==
    /\ currentAudio.st = "loading"
    /\ Commit([Now EXCEPT !.currentAudio.st = "playing"], "-")

\* play() is refused (autoplay policy): the catch of speakWithElevenLabs
PlayRejected ==
    /\ currentAudio.st = "loading"
    /\ Commit(speakText([Now EXCEPT !.currentAudio = InertAudio],
                        currentAudio.text, currentAudio.msgId), "premiumFailed")

\* the play() promise of an element paused or failed while loading rejects
AbortedPlayRejectedOf(p) ==
    Commit(speakText([Now EXCEPT !.abortedPlays = @ \ {p}], p.text, p.msgId),
           "premiumFailed")

AbortedPlayRejected == \E p \in abortedPlays : AbortedPlayRejectedOf(p)

\* the error event of the element (the media cannot be loaded or decoded)
AudioError ==
    /\ AudioActive(currentAudio)
    /\ Commit(audioOnError(
                 [Now EXCEPT !.currentAudio = InertAudio,
                             !.abortedPlays =
                                 IF currentAudio.st = "loading"
                                 THEN @ \cup {[text |-> currentAudio.text,
                                               msgId |-> currentAudio.msgId]}
                                 ELSE @],
                 currentAudio.text, currentAudio.msgId), "premiumFailed")

AudioEnded ==
    /\ currentAudio.st = "playing"
    /\ Commit(audioOnEnded([Now EXCEPT !.currentAudio = InertAudio]),
              "playbackEnded")

\* ---------------------------------------------- speechSynthesis events
UttStart ==
    /\ utt.st = "pending"
    /\ Commit([Now EXCEPT !.utt.st = "speaking", !.isSpeaking = TRUE,
                          !.currentSpeakingMsgId = utt.msgId], "-")

UttEnd ==
    /\ utt.st = "speaking"
    /\ Commit(utteranceOnEnd([Now EXCEPT !.utt = NoUtt]), "playbackEnded")

UttError ==
    /\ UttActive(utt)
    /\ Commit(utteranceOnError([Now EXCEPT !.utt = NoUtt]),
              IF utt.msgId # NoMsg THEN "replyPlaybackErrored" ELSE "-")

\* The terminal event of an utterance removed by cancel().  Hosts differ in
\* the event they deliver for an interrupted utterance: end, or error
\* (interrupted); one that never started gets error (canceled).
CancelledUttEnd ==
    /\ staleUtt["speaking"] > 0
    /\ Commit(utteranceOnEnd([Now EXCEPT !.staleUtt["speaking"] = @ - 1]),
              "playbackEnded")

CancelledUttError ==
    \E k \in {"pending", "speaking"} :
        /\ staleUtt[k] > 0
        /\ Commit(utteranceOnError([Now EXCEPT !.staleUtt[k] = @ - 1]),
                  "-")

\* ------------------------------------------------ raw-clip (HD) capture
\* startListening after the await of getUserMedia: a recorder on the new
\* stream replaces the one mediaRecorder referred to, which keeps recording
\* if it was; the 30 s timer is armed.
recorderStarted(s) ==
    [s EXCEPT !.gumPending = @ - 1,
              !.orphanRecorders = IF s.mediaRecorder = "recording" THEN @ + 1 ELSE @,
              !.mediaRecorder = "recording",
              !.isRecording = TRUE,
              !.autoStopTimers = @ + 1]

GetUserMediaResolved ==
    /\ gumPending > 0
    /\ Commit(recorderStarted(Now), "-")

\* permission refused or no device: the catch of startListening
GetUserMediaRejected ==
    /\ gumPending > 0
    /\ Commit([Now EXCEPT !.gumPending = @ - 1, !.errorShown = MicError], "-")

\* startListening after the await of getUserMedia when the recorder cannot
\* be used: new MediaRecorder throws (constructed = FALSE; the host does not
\* record the requested type), or mediaRecorder.start() throws after the
\* recorder replaced the previous one and isRecording was set.  The catch
\* shows the microphone message; the tracks of the stream are stopped only
\* by the stop handler of a recorder, which never runs for this stream.
recorderFailed(s, constructed) ==
    LET s1 == [s EXCEPT !.gumPending = @ - 1,
                        !.leakedStreams = @ + 1,
                        !.errorShown = MicError]
    IN  IF constructed
        THEN [s1 EXCEPT !.orphanRecorders =
                            IF s.mediaRecorder = "recording" THEN @ + 1 ELSE @,
                        !.mediaRecorder = "inactive",
                        !.isRecording = TRUE]
        ELSE s1

RecorderFailed ==
    /\ gumPending > 0
    /\ \E constructed \in BOOLEAN : Commit(recorderFailed(Now, constructed), "-")

\* the 30 s timer of a raw-clip start fires
AutoStopTimerFires ==
    /\ autoStopTimers > 0
    /\ LET s1 == [Now EXCEPT !.autoStopTimers = @ - 1]
       IN  Commit(IF s1.mediaRecorder = "recording" THEN stopListening(s1) ELSE s1,
                  "-")

\* mediaRecorder.onstop up to the await of the transcription request
RecorderOnStop ==
    /\ stoppedRecorders > 0
    /\ Commit([Now EXCEPT !.stoppedRecorders = @ - 1,
                          !.transcribeInFlight = @ + 1], "-")

\* The request that resolves is one of a capture stopped before a later
\* capture start (sup) or not: recorders get their stop event in the order
\* they were stopped, so the superseded uploads are the oldest.
UploadResolving(sup) ==
    /\ transcribeInFlight > 0
    /\ IF sup THEN supersededUploads > 0
              ELSE supersededUploads < transcribeInFlight

\* data.success && data.text: the 100 ms auto-send timer is armed
TranscribeResolved ==
    \E sup \in BOOLEAN : \E t \in Transcripts :
        /\ UploadResolving(sup)
        /\ Commit([Now EXCEPT !.transcribeInFlight = @ - 1,
                              !.supersededUploads = IF sup THEN @ - 1 ELSE @,
                              !.userInput = t,
                              !.inputSuperseded = sup,
                              !.autoSendTimers = @ + 1], "-")

\* no success, no text, or the request throws
TranscribeFailed ==
    \E sup \in BOOLEAN : \E e \in TranscribeErrors :
        /\ UploadResolving(sup)
        /\ Commit([Now EXCEPT !.transcribeInFlight = @ - 1,
                              !.supersededUploads = IF sup THEN @ - 1 ELSE @,
                              !.errorShown = e],
                  "-")

\* --------------------------------------------- inline (STD) recognition
RecognitionOnStart ==
    /\ recState = "starting"
    /\ Commit([Now EXCEPT !.recState = "listening", !.isRecording = TRUE], "-")

\* recognition.onresult taking every result for final
recognitionOnResult_AnyResult(s, transcript, isFinal) ==
    [stopListening([s EXCEPT !.userInput = transcript,
                             !.inputSuperseded = FALSE])
        EXCEPT !.autoSendTimers = @ + 1]

\* recognition.onresult: transcript is the text of event.results, isFinal
\* is event.results[0].isFinal
recognitionOnResult(s, transcript, isFinal) ==
    IF isFinal
    THEN [stopListening([s EXCEPT !.userInput = transcript,
                                  !.inputSuperseded = FALSE])
             EXCEPT !.autoSendTimers = @ + 1]
    ELSE s

\* recognition.onresult filling the input field without the auto-send timer
RecognitionFinalResult_NoAutoSend ==
    /\ recState = "listening"
    /\ \E t \in Transcripts :
          Commit(stopListening([ByUser EXCEPT !.userInput = t,
                                               !.inputSuperseded = FALSE]), "-")

\* recognition.onresult with a final result (the user has spoken): the
\* 300 ms auto-send timer
RecognitionFinalResult ==
    /\ recState = "listening"
    /\ \E t \in Transcripts : Commit(recognitionOnResult(ByUser, t, TRUE), "-")

\* recognition.onresult with an interim result
RecognitionInterimResult ==
    /\ recState = "listening"
    /\ \E t \in Transcripts :
          Commit(recognitionOnResult(Now, t, FALSE), "interim")

\* recognition.onerror; the recogniser then ends
RecognitionOnError ==
    /\ recState \in {"starting", "listening"}
    /\ Commit([Now EXCEPT !.recState = "stopping", !.isRecording = FALSE], "-")

RecognitionOnEnd ==
    /\ recState \in {"listening", "stopping"}
    /\ Commit([Now EXCEPT !.recState = "idle", !.isRecording = FALSE], "-")

\* an auto-send timer fires: sendMessage
AutoSendTimerFires ==
    /\ autoSendTimers > 0
    /\ Commit(sendMessage([Now EXCEPT !.autoSendTimers = @ - 1]),
              IF sendDisabled THEN "sendRejected"
              ELSE IF Trim(userInput) # <<>> THEN "autoSent" ELSE "-")

\* --------------------------------------------------- chat request resolves
\* what a 2xx response without data.response shows: data.detail, if any
EmptyReplyErrors ==
    {"Error: " \o d : d \in BackendDetails} \cup {EmptyResponseError}

\* request i resolves with a 2xx response carrying reply and sid
ChatRepliedWith(i, reply, sid, e) ==
    Commit([chatReplied([Now EXCEPT !.chatInFlight = RemoveAt(@, i)], reply, sid)
               EXCEPT !.errorShown = IF reply = <<>> THEN e ELSE NoError,
                      !.lastReplySid =
                          IF reply # <<>> /\ sid # NoSession THEN sid ELSE @],
           "-")

ChatReplied ==
    \E i \in 1..Len(chatInFlight) :
    \E reply \in Replies \cup {<<>>} : \E sid \in SessionIds \cup {NoSession} :
    \E e \in EmptyReplyErrors :
        ChatRepliedWith(i, reply, sid, e)

\* --------------------------------------------- session request resolves
\* addBotMessage(text)
addBotMessage(s, text) ==
    [s EXCEPT !.messageIdCounter = @ + 1,
              !.messages = @ \cup {[id |-> s.messageIdCounter + 1, text |-> text]}]

RECURSIVE addBotMessages(_, _)
\* the assistant messages of data.history, those with content
addBotMessages(s, history) ==
    IF history = <<>> THEN s
    ELSE addBotMessages(IF Head(history) # <<>>
                        THEN addBotMessage(s, Head(history)) ELSE s,
                        Tail(history))

\* loadSession after its await
sessionLoaded(s, sessionId, history) ==
    addBotMessages([s EXCEPT !.currentSessionId = sessionId, !.messages = {}],
                   history)

\* the assistant messages of a stored session
Histories == {<<>>} \cup {<<r>> : r \in Replies}

LoadSessionResolved ==
    \E i \in 1..Len(loadsInFlight) : \E history \in Histories :
        Commit(sessionLoaded([Now EXCEPT !.loadsInFlight = RemoveAt(@, i)],
                             loadsInFlight[i], history), "-")

\* the request or response.json() throws
LoadSessionFailed ==
    \E i \in 1..Len(loadsInFlight) :
        Commit([Now EXCEPT !.loadsInFlight = RemoveAt(@, i)], "-")

\* how a chat request fails: the request throws; or the status is not OK
\* and the body is not JSON, or is JSON with or without a detail
ChatFailures ==
    {[throws |-> TRUE, json |-> FALSE, detail |-> NoDetail]}
    \cup {[throws |-> FALSE, json |-> FALSE, detail |-> NoDetail]}
    \cup {[throws |-> FALSE, json |-> TRUE, detail |-> d] :
              d \in BackendDetails \cup {NoDetail}}

\* the text reported for the failure without a look at errorData.detail
chatErrorMessage_Generic(f) ==
    IF f.throws THEN NetworkError ELSE NoDetailError

\* the text sendMessage reports for failure f
chatErrorMessage(f) ==
    IF f.throws THEN NetworkError
    ELSE LET errorData == IF f.json THEN [detail |-> f.detail]
                          ELSE [detail |-> NotJsonError]
         IN  IF errorData.detail # NoDetail THEN errorData.detail
             ELSE NoDetailError

\* the failure branches sending a request again
chatFailed_Retries(s, f) ==
    [s EXCEPT !.errorShown = chatErrorMessage(f),
              !.chatInFlight = Append(@, [message |-> <<"hello">>,
                                          session_id |-> s.currentSessionId])]

\* the failure branches without the re-enabling of the send button
chatFailed_GateStaysClosed(s, f) ==
    [s EXCEPT !.errorShown = chatErrorMessage(f)]

\* the failure branches forgetting the session as well
chatFailed_ForgetsSession(s, f) ==
    [s EXCEPT !.sendDisabled = FALSE, !.errorShown = chatErrorMessage(f),
              !.currentSessionId = NoSession]

\* sendMessage after a non-OK response or a throwing request
chatFailed(s, f) ==
    [s EXCEPT !.sendDisabled = FALSE, !.errorShown = chatErrorMessage(f)]

\* request i fails as f
ChatFailedWith(i, f) ==
    Commit(chatFailed([Now EXCEPT !.chatInFlight = RemoveAt(@, i)], f), "-")

\* non-OK status, or the request throws
ChatFailed ==
    \E i \in 1..Len(chatInFlight) : \E f \in ChatFailures : ChatFailedWith(i, f)

\* ------------------------------------------------------------------ Next
Next ==
    \/ "typing" \in EventClasses /\ TypeInput
    \/ "typing" \in EventClasses /\ SendClick
    \/ "typing" \in EventClasses /\ NewChatClick
    \/ "chat" \in EventClasses /\ ChatReplied
    \/ "chat" \in EventClasses /\ ChatFailed
    \/ "chat" \in EventClasses /\ AutoSendTimerFires
    \/ "voice" \in EventClasses /\ VoiceModeClick
    \/ "voice" \in EventClasses /\ StatusResolved
    \/ "voice" \in EventClasses /\ StatusFailed
    \/ "voice" \in EventClasses /\ TtsNotOk
    \/ "voice" \in EventClasses /\ TtsAudio
    \/ "voice" \in EventClasses /\ TtsUndecodable
    \/ "voice" \in EventClasses /\ TtsNoAudio
    \/ "voice" \in EventClasses /\ TtsThrows
    \/ "controls" \in EventClasses /\ AutoSpeakChange
    \/ "controls" \in EventClasses /\ SpeakButtonClick
    \/ "synthesis" \in EventClasses /\ PlayResolved
    \/ "synthesis" \in EventClasses /\ PlayRejected
    \/ "synthesis" \in EventClasses /\ AbortedPlayRejected
    \/ "synthesis" \in EventClasses /\ AudioError
    \/ "synthesis" \in EventClasses /\ AudioEnded
    \/ "synthesis" \in EventClasses /\ UttStart
    \/ "synthesis" \in EventClasses /\ UttEnd
    \/ "synthesis" \in EventClasses /\ UttError
    \/ "synthesis" \in EventClasses /\ CancelledUttEnd
    \/ "synthesis" \in EventClasses /\ CancelledUttError
    \/ "mic" \in EventClasses /\ MicClick
    \/ "strategy" \in EventClasses /\ HdToggleClick
    \/ "rawclip" \in EventClasses /\ GetUserMediaResolved
    \/ "rawclip" \in EventClasses /\ GetUserMediaRejected
    \/ "recorderfault" \in EventClasses /\ RecorderFailed
    \/ "rawclip" \in EventClasses /\ AutoStopTimerFires
    \/ "rawclip" \in EventClasses /\ RecorderOnStop
    \/ "rawclip" \in EventClasses /\ TranscribeResolved
    \/ "rawclip" \in EventClasses /\ TranscribeFailed
    \/ "inline" \in EventClasses /\ RecognitionOnStart
    \/ "inline" \in EventClasses /\ RecognitionFinalResult
    \/ "interim" \in EventClasses /\ RecognitionInterimResult
    \/ "inline" \in EventClasses /\ RecognitionOnError
    \/ "inline" \in EventClasses /\ RecognitionOnEnd
    \/ "history" \in EventClasses /\ HistoryItemClick
    \/ "history" \in EventClasses /\ LoadSessionResolved
    \/ "history" \in EventClasses /\ LoadSessionFailed

Spec == Init /\ [][Next]_vars

\* The steps that need no user: continuations of requests, timers and
\* events of the platform.  The event loop runs every callback that is
\* ready and every request resolves or fails, so these steps are taken when
\* they stay possible; the user is never obliged to act.
AutoNext ==
    /\ userActions' = userActions
    /\ \/ "chat" \in EventClasses
          /\ (ChatReplied \/ ChatFailed \/ AutoSendTimerFires)
       \/ "voice" \in EventClasses
          /\ (StatusResolved \/ StatusFailed \/ TtsNotOk \/ TtsAudio
                 \/ TtsUndecodable \/ TtsNoAudio \/ TtsThrows)
       \/ "synthesis" \in EventClasses
          /\ (PlayResolved \/ PlayRejected \/ AbortedPlayRejected
                 \/ AudioError \/ AudioEnded \/ UttStart \/ UttEnd \/ UttError
                 \/ CancelledUttEnd \/ CancelledUttError)
       \/ "rawclip" \in EventClasses
          /\ (GetUserMediaResolved \/ GetUserMediaRejected
                 \/ AutoStopTimerFires \/ RecorderOnStop
                 \/ TranscribeResolved \/ TranscribeFailed)
       \/ "recorderfault" \in EventClasses /\ RecorderFailed
       \/ "inline" \in EventClasses
          /\ (RecognitionOnStart \/ RecognitionOnError \/ RecognitionOnEnd)
       \/ "history" \in EventClasses
          /\ (LoadSessionResolved \/ LoadSessionFailed)

FairSpec == Spec /\ WF_vars(AutoNext)

\* ================================================================ claims
\* what sounds, and what holds the microphone
AudioSounding == currentAudio.st = "playing"
UttSounding == utt.st = "speaking"
RecordersRecording == (IF mediaRecorder = "recording" THEN 1 ELSE 0) + orphanRecorders
CaptureResources == RecordersRecording + (IF recState = "listening" THEN 1 ELSE 0)

\* C1: at most one playback is active at any instant, counting the premium
\* audio element and the local utterance together.
C1_SinglePlayback == ~(AudioSounding /\ UttSounding)

\* C2: at most one capture resource (a recording recorder with its stream,
\* or a recognition session) exists at any instant.
C2_SingleCapture == CaptureResources <= 1

\* the variables a chat request and its resolution read or write
dispatchVars ==
    <<useHDMode, autoSpeak, isSpeaking, currentSpeakingMsgId, voiceModeActive,
      currentAudio, currentSessionId, storedSessionId, isRecording,
      mediaRecorder, elevenLabsAvailable, sendDisabled, userInput,
      messageIdCounter, messages, autoSpeakChecked, utt, staleUtt, abortedPlays,
      recState, gumPending, orphanRecorders, stoppedRecorders, ttsInFlight,
      chatInFlight, statusInFlight, transcribeInFlight, autoStopTimers>>

\* C3: at most one chat request is in flight at any instant, the send gate
\* is closed exactly while one is, and a sendMessage call made while one is
\* in flight (click, Enter or auto-send timer) issues no request and
\* changes nothing the first request's resolution depends on.
C3_SingleFlightDispatch ==
    /\ [](Len(chatInFlight) <= 1 /\ (sendDisabled <=> Len(chatInFlight) = 1))
    /\ [][(Len(chatInFlight) >= 1 /\ (SendClick \/ AutoSendTimerFires))
             => UNCHANGED dispatchVars]_vars

\* C3 witness: a send was rejected while a request is in flight.
C3_Witness == lastOp = "sendRejected" /\ Len(chatInFlight) = 1 /\ userInput # <<>>

CaptureHeld ==
    \/ RecordersRecording > 0
    \/ recState \in {"starting", "listening"}

\* C4: a playback that was active when a capture start was called never
\* coexists with the capture that start acquires: the start cancels it
\* before the recogniser is started or the microphone is requested.
C4_BargeInCancelsFirst ==
    CaptureHeld =>
        /\ ~(AudioActive(currentAudio) /\ currentAudio.barged)
        /\ ~(UttActive(utt) /\ utt.barged)

\* C4 witness: the mic button was clicked during a playback and the
\* recogniser has been started; nothing is playing.
C4_Witness ==
    /\ lastOp = "bargeIn" /\ recState = "starting"
    /\ ~AudioActive(currentAudio) /\ ~UttActive(utt)

\* C5: while a capture is active no playback is active.
C5_CaptureExcludesPlayback ==
    (RecordersRecording > 0 \/ recState = "listening")
        => ~(AudioSounding \/ UttSounding)

\* C6: the terminal event of a cancelled (superseded) utterance never
\* starts a capture.
C6_CancelledNeverRearms ==
    [][(CancelledUttEnd \/ CancelledUttError)
          => (gumPending' = gumPending /\ recState' = recState)]_vars

\* C7: once the availability flag is false it never becomes true again.
C7_AvailabilityOneWay ==
    [][~elevenLabsAvailable => ~elevenLabsAvailable']_vars

\* C8: once the provider has been marked unavailable after a definitive
\* failure, no step issues a premium synthesis request.
C8_NoPremiumAfterMark ==
    [][markedUnavailable => Len(ttsInFlight') <= Len(ttsInFlight)]_vars

\* the text of request r handed to the local engine in the step: speakText
\* was called with it, and a host with speechSynthesis has queued the
\* cleaned text
LocalFallback(r) ==
    /\ lastSpeakText' = [text |-> r.text, msgId |-> r.msgId]
    /\ synthSupported =>
          utt' = [text |-> CleanText(r.text), msgId |-> r.msgId,
                  st |-> "pending", barged |-> FALSE]

PremiumFailureOps ==
    {"premiumFailed"} \cup {StatusLabel(status) : status \in NonOkStatuses}

\* C10: every failure of the premium path hands the same text to the local
\* engine and issues no further premium request for it.
C10_PremiumFailureFallsBack ==
    [][lastOp' \in PremiumFailureOps =>
       /\ \A i \in 1..Len(ttsInFlight) :
             (\/ TtsThrowsAt(i) \/ TtsNoAudioAt(i) \/ TtsUndecodableAt(i)
              \/ \E status \in NonOkStatuses : TtsNotOkAt(i, status))
                => /\ LocalFallback(ttsInFlight[i])
                   /\ ttsInFlight' = RemoveAt(ttsInFlight, i)
       /\ (PlayRejected \/ AudioError)
             => /\ LocalFallback(currentAudio)
                /\ ttsInFlight' = ttsInFlight
       /\ \A p \in abortedPlays :
             AbortedPlayRejectedOf(p)
                => /\ LocalFallback(p)
                   /\ ttsInFlight' = ttsInFlight]_vars

\* C10 witness: a premium failure has queued the cleaned reply text at the
\* local engine.
C10_Witness ==
    /\ lastOp = "premiumFailed" /\ utt.st = "pending"
    /\ lastSpeakText.text \in Replies /\ utt.text = CleanText(lastSpeakText.text)
    /\ utt.text # lastSpeakText.text

\* C11: the availability status query is issued at most once: once one has
\* been issued, no step issues another.
C11_StatusQueriedOnce ==
    [][statusQueried => statusInFlight' <= statusInFlight]_vars

\* nothing of any speak call is pending: no synthesis request, no audio
\* element loading or playing, no play() promise to settle, no utterance
\* queued, speaking or awaiting its terminal event
PlaybackQuiescent ==
    /\ ttsInFlight = <<>> /\ ~AudioActive(currentAudio) /\ abortedPlays = {}
    /\ ~UttActive(utt) /\ staleUtt["pending"] + staleUtt["speaking"] = 0

\* C12: every speak call gets exactly one terminal event: never more
\* terminal callbacks than speak calls, and none missing once nothing of any
\* speak call is pending.
C12_OneTerminalPerSpeak ==
    /\ openSpeaks >= 0
    /\ PlaybackQuiescent => openSpeaks = 0

\* the step acquires a capture: the recogniser is started or the microphone
\* is requested
CaptureStarts ==
    \/ gumPending' > gumPending
    \/ recState = "idle" /\ recState' = "starting"

\* the turn in progress has work before its terminal state: a chat request
\* or a synthesis request in flight
TurnInFlight == chatInFlight # <<>> \/ ttsInFlight # <<>>

\* C13: a terminal event of a playback starts a capture only when no chat
\* request and no synthesis request is in flight and no other playback is
\* active.
C13_RearmAfterSynthesisTerminal ==
    [][/\ (UttEnd /\ CaptureStarts)
             => ~TurnInFlight /\ ~AudioActive(currentAudio)
       /\ (AudioEnded /\ CaptureStarts)
             => ~TurnInFlight /\ ~UttActive(utt)
       /\ (CancelledUttEnd /\ CaptureStarts)
             => ~TurnInFlight /\ ~AudioActive(currentAudio) /\ ~UttActive(utt)]_vars

\* the step starts a playback: an Audio element is created and played, or
\* speakText queues an utterance
PlaybackStarts ==
    \/ TtsAudio
    \/ lastSpeakText' # NoSpeak /\ utt'.st = "pending"

\* a step that resolves work only voice mode issues: the availability probe
\* or a premium synthesis request
VoiceWorkResolves ==
    \/ StatusResolved \/ StatusFailed
    \/ TtsNotOk \/ TtsAudio \/ TtsUndecodable \/ TtsNoAudio \/ TtsThrows

\* C14: the click that disables voice mode leaves no capture and no playback
\* active, and while voice mode is off the probe and the synthesis requests
\* issued before the disable start no playback when they resolve.
C14_DisableReturnsToIdle ==
    [][/\ (voiceModeActive /\ VoiceModeClick)
             => /\ ~CaptureHeld' /\ gumPending' = 0
                /\ ~AudioActive(currentAudio') /\ ~UttActive(utt')
       /\ (~voiceModeActive /\ VoiceWorkResolves) => ~PlaybackStarts]_vars

\* a playback delivers its end event
PlaybackEnds == UttEnd \/ CancelledUttEnd \/ AudioEnded

\* C15: the end of a playback starts a capture only if voice mode is on at
\* that moment; with voice mode off it starts none and leaves the capture
\* state as it was.
C15_RearmOnlyWhileVoiceMode ==
    [][(PlaybackEnds /\ ~voiceModeActive)
          => /\ ~CaptureStarts
             /\ recState' = recState /\ gumPending' = gumPending
             /\ isRecording' = isRecording /\ mediaRecorder' = mediaRecorder]_vars

\* C15 witness: voice mode had been on, it is off when a playback ends, and
\* the recogniser the host offers stays idle.
C15_Witness ==
    /\ lastOp = "playbackEnded" /\ ~voiceModeActive /\ statusQueried
    /\ recogSupported /\ recState = "idle" /\ ~isRecording

\* a capture is recording or listening
CaptureActive == RecordersRecording > 0 \/ recState = "listening"

\* C16: an auto-send never dispatches the transcript of a capture that was
\* stopped before a later capture start while a later capture is active.
C16_SupersededNeverDispatched ==
    [][(AutoSendTimerFires /\ Len(chatInFlight') > Len(chatInFlight))
          => ~(inputSuperseded /\ CaptureActive)]_vars

visibleVars ==
    <<messages, messageIdCounter, userInput, sendDisabled, isRecording,
      isSpeaking, voiceModeActive, useHDMode>>

\* C18: a send of a non-empty text that is rejected because a chat request
\* is in flight changes something the user sees.
C18_RejectedSendSignalled ==
    [][((SendClick \/ AutoSendTimerFires)
          /\ sendDisabled /\ Trim(userInput) # <<>>)
          => visibleVars' # visibleVars]_vars

\* C19: when the 30 s timer of the only raw-clip capture fires while it is
\* recording, the recording is stopped and its clip goes to transcription.
C19_ForceStopAfter30s ==
    [][(AutoStopTimerFires /\ autoStopTimers = 1
          /\ mediaRecorder = "recording" /\ orphanRecorders = 0)
          => /\ mediaRecorder' = "inactive"
             /\ stoppedRecorders' = stoppedRecorders + 1]_vars

\* a step that calls stopListening
StopListeningCalled ==
    \/ MicClick /\ isRecording
    \/ AutoStopTimerFires /\ mediaRecorder = "recording"
    \/ RecognitionFinalResult

\* C20: after stopListening has been called with one capture active, that
\* capture is no longer recording: a raw-clip recording is finalized, a
\* recognition session is stopping.
C20_StopReleasesCapture ==
    [][StopListeningCalled
          => /\ (mediaRecorder = "recording" /\ recState \notin {"starting", "listening"})
                   => mediaRecorder' = "inactive"
             /\ (recState \in {"starting", "listening"} /\ mediaRecorder # "recording")
                   => recState' = "stopping"]_vars

\* no recorder of mediaRecorder is recording and the recogniser is neither
\* started nor listening
CaptureStopped ==
    mediaRecorder # "recording" /\ recState \notin {"starting", "listening"}

\* C21: a second stopListening call right after a first one hands no second
\* clip to transcription, arms no auto-send and issues no chat request, and
\* stopListening on a stopped capture changes nothing.
C21_StopIdempotent ==
    LET once == stopListening(Now)
        twice == stopListening(once)
    IN  /\ twice.stoppedRecorders = once.stoppedRecorders
        /\ twice.transcribeInFlight = once.transcribeInFlight
        /\ twice.autoSendTimers = once.autoSendTimers
        /\ twice.chatInFlight = once.chatInFlight
        /\ twice.mediaRecorder = once.mediaRecorder
        /\ CaptureStopped => once = Now

\* C21 witness: a raw-clip recording has been stopped, its clip awaits
\* transcription, and a further stopListening call changes nothing.
C21_Witness ==
    /\ useHDMode /\ mediaRecorder = "inactive" /\ stoppedRecorders = 1
    /\ ~isRecording /\ stopListening(Now) = Now

\* the browser refuses the microphone: getUserMedia rejects (raw-clip
\* recording), or the recogniser reports an error before it has started
\* (inline recognition)
PermissionDenied ==
    \/ GetUserMediaRejected
    \/ recState = "starting" /\ RecognitionOnError

\* the capture starts that wait for the microphone
PendingStarts == gumPending + (IF recState = "starting" THEN 1 ELSE 0)

\* a denied capture start ends without a capture resource and without a
\* further start
DeniedStartEnds ==
    /\ PendingStarts' < PendingStarts
    /\ CaptureResources' <= CaptureResources
    /\ ~CaptureStarts

\* C22: when microphone permission is denied, under either capture strategy,
\* the capture start fails and leaves no capture resource, no new capture
\* start is attempted by the step, and the message that names the remedy
\* (check the permissions) is shown.
C22_DenialReported ==
    [][PermissionDenied => DeniedStartEnds /\ errorShown' = MicError]_vars

\* a capture or a transcription fails
CaptureOrTranscriptionFails ==
    GetUserMediaRejected \/ TranscribeFailed \/ RecognitionOnError

\* the step sends no chat request and arms no auto-send timer
NoDispatch ==
    /\ chatInFlight' = chatInFlight
    /\ autoSendTimers' <= autoSendTimers

\* C23: a failed transcription, a failed capture or an empty transcript
\* never results in a chat request: the failing step sends none, arms no
\* auto-send and reports the error to the user; the auto-send of a
\* transcript of white space sends nothing; and no chat request in flight
\* ever carries an empty or white-space-only message.
C23_FailuresNeverDispatch ==
    [][/\ CaptureOrTranscriptionFails => NoDispatch /\ errorShown' # NoError
       /\ AutoSendTimerFires /\ Trim(userInput) = <<>> => NoDispatch
       /\ \A i \in 1..Len(chatInFlight') :
              Trim(chatInFlight'[i].message) # <<>>]_vars

\* the state of Scenario A: voice mode is enabled and premium synthesis is
\* available
ScenarioA == voiceModeActive /\ autoSpeak /\ elevenLabsAvailable

\* no capture is armed and the host can start one: the raw-clip strategy,
\* or a recogniser that is idle
CaptureReady ==
    ~isRecording /\ (useHDMode \/ (recogSupported /\ recState = "idle"))

\* C24: Scenario A as a chain of steps. With voice mode enabled, premium
\* synthesis available and no stored session, the auto-send of the final
\* transcript "hello" sends the chat request with message "hello" and
\* session_id null; the reply's session_id becomes the stored session
\* identifier and the reply is handed to the premium engine, which plays
\* it; and the end of that playback re-arms the capture.
C24_ScenarioAChain ==
    [][/\ ( /\ AutoSendTimerFires /\ ScenarioA /\ ~sendDisabled
            /\ userInput = <<"hello">> /\ currentSessionId = NoSession )
          => chatInFlight' = Append(chatInFlight, [message |-> <<"hello">>,
                                                   session_id |-> NoSession])
       /\ \A i \in 1..Len(chatInFlight) : \A reply \in Replies :
          \A sid \in SessionIds : \A e \in EmptyReplyErrors :
             (ScenarioA /\ ChatRepliedWith(i, reply, sid, e))
                => /\ currentSessionId' = sid /\ storedSessionId' = sid
                   /\ ttsInFlight' = Append(ttsInFlight,
                                            [text |-> reply,
                                             msgId |-> messageIdCounter'])
                   /\ lastSpeakText' = NoSpeak
       /\ (ScenarioA /\ TtsAudio)
             => AudioActive(currentAudio') /\ lastSpeakText' = NoSpeak
       /\ (ScenarioA /\ AudioEnded /\ CaptureReady)
             => CaptureStarts]_vars

\* C24 witness: the end of the chain. After the enabling click and one
\* spoken transcript, the reply is shown, its session identifier is
\* stored, every speak call has ended on the premium engine (the host has
\* no local engine) and the end of the playback has re-armed the capture.
C24_Witness ==
    /\ lastOp = "playbackEnded" /\ ScenarioA /\ ~synthSupported
    /\ userActions = 2 /\ messages # {}
    /\ currentSessionId = "abc" /\ storedSessionId = "abc"
    /\ chatInFlight = <<>> /\ ttsInFlight = <<>> /\ openSpeaks = 0
    /\ recState = "starting"

\* the step sends a chat request
RequestSent == Len(chatInFlight') > Len(chatInFlight)

\* the chat request the step sends
SentRequest == chatInFlight'[Len(chatInFlight')]

\* a chat response with a reply text and a session_id replaces the session
\* identifier in memory and in localStorage
ReplySessionStored ==
    \A i \in 1..Len(chatInFlight) : \A reply \in Replies :
    \A sid \in SessionIds : \A e \in EmptyReplyErrors :
        ChatRepliedWith(i, reply, sid, e)
           => currentSessionId' = sid /\ storedSessionId' = sid

\* C25 as stated: whenever a successful chat response carries a session_id,
\* that value replaces the stored session identifier, in memory and in the
\* persistent store, and is the session_id sent with the next chat request.
C25_ReplySessionSentNext ==
    [][/\ ReplySessionStored
       /\ (RequestSent /\ lastReplySid # NoSession)
             => SentRequest.session_id = lastReplySid]_vars

\* C25 amended: a chat response with a reply text and a session_id replaces
\* the session identifier in memory and in the persistent store; every chat
\* request carries the identifier in memory; and that identifier changes
\* only by such a response, by New Chat or by the loading of a stored
\* session.
C25_ReplySessionSentUnlessSwitched ==
    [][/\ ReplySessionStored
       /\ RequestSent => SentRequest.session_id = currentSessionId
       /\ currentSessionId' # currentSessionId
             => ChatReplied \/ NewChatClick \/ LoadSessionResolved]_vars

\* C25 witness: a request in flight carries the session_id of the last
\* response, which is also the identifier in memory and in localStorage.
C25_Witness ==
    /\ lastReplySid = "abc" /\ currentSessionId = "abc" /\ storedSessionId = "abc"
    /\ \E i \in 1..Len(chatInFlight) : chatInFlight[i].session_id = "abc"

\* the step writes the session identifier, in memory or in localStorage
SessionWritten ==
    currentSessionId' # currentSessionId \/ storedSessionId' # storedSessionId

\* the availability flag is written only by the probe of the voice-mode
\* enable and by the marking of a definitive synthesis failure
FlagWrittenByRegistry ==
    elevenLabsAvailable' # elevenLabsAvailable
       => StatusResolved \/ StatusFailed \/ TtsNotOk

\* C26 as stated: the session identifier is written only by the resolution
\* of a chat request and the availability flag only by the probe and the
\* marking; no other operation changes either of them.
C26_WrittenOnlyByGateAndRegistry ==
    [][/\ SessionWritten => ChatReplied
       /\ FlagWrittenByRegistry]_vars

\* C26 amended: the session identifier is written only by the resolution of
\* a chat request, by New Chat and by the loading of a stored session, and
\* the availability flag only by the probe and the marking.
C26_WrittenOnlyBySessionOperations ==
    [][/\ SessionWritten => ChatReplied \/ NewChatClick \/ LoadSessionResolved
       /\ FlagWrittenByRegistry]_vars

\* C26 witness: the identifier a response had stored has been reset by New
\* Chat.
C26_Witness ==
    /\ lastReplySid = "abc" /\ messages = {}
    /\ currentSessionId = NoSession /\ storedSessionId = NoSession

\* the texts that report a connectivity problem
GenericConnectivityErrors == {NoDetailError, NotJsonError, NetworkError}

\* the step shows no reply and starts no speech
NoReplyShownOrSpoken ==
    /\ messages' = messages /\ messageIdCounter' = messageIdCounter
    /\ lastSpeakText' = NoSpeak /\ ttsInFlight' = ttsInFlight
    /\ utt' = utt /\ currentAudio' = currentAudio /\ openSpeaks' = openSpeaks

\* C27: a chat request that fails (the request throws or the status is not
\* OK) shows an error message that is the backend's detail string when the
\* body supplied one and a generic connectivity message otherwise, and no
\* reply is shown or spoken in the step.
C27_FailureShowsDetailOrGeneric ==
    [][\A i \in 1..Len(chatInFlight) : \A f \in ChatFailures :
          ChatFailedWith(i, f)
             => /\ IF f.json /\ f.detail # NoDetail
                   THEN errorShown' = f.detail
                   ELSE errorShown' \in GenericConnectivityErrors
                /\ NoReplyShownOrSpoken]_vars

\* C27 witness: a failure with the backend's detail has been shown while
\* replies would be spoken, and no message was added.
C27_Witness ==
    /\ errorShown \in BackendDetails /\ autoSpeak
    /\ messages = {} /\ chatInFlight = <<>> /\ ~sendDisabled

\* the capture state of the program and of the host
captureVars ==
    <<isRecording, mediaRecorder, recState, gumPending, orphanRecorders,
      stoppedRecorders, autoStopTimers>>

\* C28: a chat request failure does not disable voice mode: the step leaves
\* voiceModeActive and autoSpeak as they are, starts no capture and no
\* playback, changes no capture state, and opens the send gate again.
C28_FailureKeepsVoiceMode ==
    [][ChatFailed
          => /\ voiceModeActive' = voiceModeActive /\ autoSpeak' = autoSpeak
             /\ ~CaptureStarts /\ captureVars' = captureVars
             /\ ~PlaybackStarts /\ NoReplyShownOrSpoken
             /\ ~sendDisabled']_vars

\* C28 witness: a chat request has just failed in voice mode; voice mode is
\* still on, no capture is armed and the send gate is open.
C28_Witness ==
    /\ errorShown \in GenericConnectivityErrors \cup BackendDetails
    /\ voiceModeActive /\ autoSpeak /\ ~sendDisabled /\ chatInFlight = <<>>
    /\ ~isRecording /\ recState = "idle" /\ gumPending = 0

\* the message identifiers of the synthesis requests the step adds
NewTtsMsgIds ==
    {ttsInFlight'[k].msgId : k \in (Len(ttsInFlight) + 1)..Len(ttsInFlight')}

\* C29: synthesis never blocks text output. A chat response with a reply
\* text adds the reply to the conversation in the step that receives it,
\* whether or not the step asks for speech and whatever engine the host
\* has, and the speech it asks for refers to that message; afterwards no
\* step but New Chat and the loading of a stored session removes a message,
\* so no outcome of synthesis does.
C29_ReplyShownWhateverSynthesis ==
    [][/\ \A i \in 1..Len(chatInFlight) : \A reply \in Replies :
          \A sid \in SessionIds \cup {NoSession} : \A e \in EmptyReplyErrors :
             ChatRepliedWith(i, reply, sid, e)
                => /\ [id |-> messageIdCounter', text |-> reply] \in messages'
                   /\ messageIdCounter' = messageIdCounter + 1
                   /\ NewTtsMsgIds \subseteq {messageIdCounter'}
                   /\ lastSpeakText' # NoSpeak
                         => lastSpeakText'.msgId = messageIdCounter'
       /\ ~(messages \subseteq messages')
             => NewChatClick \/ LoadSessionResolved]_vars

\* C29 witness: the premium synthesis of a shown reply has just failed on a
\* host without a local engine, so the reply is not spoken at all, and it
\* is still in the conversation.
C29_Witness ==
    /\ lastOp = "premiumFailed" /\ ~synthSupported /\ ~isSpeaking
    /\ \E m \in messages : lastSpeakText.msgId = m.id

\* C30: whenever voice mode is on, autoSpeak is true, also while the probe
\* of the enable is pending and after the auto-speak checkbox is changed.
C30_VoiceModeImpliesAutoSpeak == voiceModeActive => autoSpeak

\* C31: each accepted send issues exactly one chat request, and Dispatch
\* never re-sends. A step adds at most one request; only a send (the send
\* button or Enter, or the auto-send of a transcript) adds one, it sends the
\* trimmed text of the input field and clears the field; and the resolution
\* of a request, with a reply, without one or with a failure, sends nothing
\* and arms no auto-send.
C31_NoAutomaticResend ==
    [][/\ Len(chatInFlight') <= Len(chatInFlight) + 1
       /\ RequestSent
             => /\ SendClick \/ AutoSendTimerFires
                /\ chatInFlight' = Append(chatInFlight, SentRequest)
                /\ SentRequest.message = Trim(userInput)
                /\ userInput' = <<>>
       /\ (/\ chatInFlight # <<>>
           /\ errorShown' # NoError \/ messageIdCounter' # messageIdCounter
           /\ ChatFailed \/ ChatReplied)
             => /\ Len(chatInFlight') = Len(chatInFlight) - 1
                /\ autoSendTimers' = autoSendTimers
                /\ userInput' = userInput]_vars

\* C31 witness: a chat request has just failed; no request is in flight,
\* no auto-send is armed and the input field is empty.
C31_Witness ==
    /\ errorShown \in GenericConnectivityErrors \cup BackendDetails
    /\ chatInFlight = <<>> /\ autoSendTimers = 0 /\ userInput = <<>>
    /\ ~sendDisabled

\* the step calls startListening: the mic button while no capture is
\* flagged, or the end of a playback that re-arms the capture
StartListeningCalled ==
    \/ MicClick /\ ~isRecording
    \/ (AudioEnded \/ UttEnd \/ CancelledUttEnd) /\ voiceModeActive /\ ~isRecording

\* C32: when the inline strategy is selected and the host has no speech
\* recognition, a capture start fails fast with the message that names the
\* remedy: the step shows the alert, acquires no capture resource, leaves
\* isRecording false and leaves nothing pending for the capture.
C32_UnsupportedFailsFast ==
    [][(StartListeningCalled /\ ~useHDMode /\ ~recogSupported)
          => /\ errorShown' = UnsupportedAlert
             /\ ~isRecording' /\ ~CaptureStarts
             /\ captureVars' = captureVars
             /\ CaptureResources' <= CaptureResources
             /\ PendingStarts' = PendingStarts]_vars

\* C32 witness: the alert has been shown on a host without recognition, and
\* no capture is armed or pending.
C32_Witness ==
    /\ errorShown = UnsupportedAlert /\ ~recogSupported /\ ~useHDMode
    /\ ~isRecording /\ recState = "idle" /\ gumPending = 0

\* C33: in the inline strategy an interim recognition result is not
\* authoritative: the step leaves the input field as it is, does not stop
\* the capture, sends no chat request and arms no auto-send; a final result
\* fills the input field and arms the auto-send.
C33_InterimNotAuthoritative ==
    [][/\ RecognitionInterimResult
             => /\ userInput' = userInput /\ captureVars' = captureVars
                /\ chatInFlight' = chatInFlight
                /\ autoSendTimers' = autoSendTimers
                /\ sendDisabled' = sendDisabled
       /\ RecognitionFinalResult
             => /\ userInput' \in Transcripts
                /\ autoSendTimers' = autoSendTimers + 1]_vars

\* C33 witness: an interim result has just been handled; the recogniser
\* still listens, the input field is empty and nothing is in flight.
C33_Witness ==
    /\ lastOp = "interim" /\ recState = "listening" /\ isRecording
    /\ userInput = <<>> /\ chatInFlight = <<>> /\ autoSendTimers = 0

\* C34: whenever the availability flag is false at the time of a speak
\* call of voice mode (the reply of a chat request, or the greeting after a
\* probe that reported unavailable or failed), the call issues no premium
\* synthesis request and hands the text to the local engine in the same
\* step.
C34_UnavailableSpeaksLocally ==
    [][/\ \A i \in 1..Len(chatInFlight) : \A reply \in Replies :
          \A sid \in SessionIds \cup {NoSession} : \A e \in EmptyReplyErrors :
             ( /\ autoSpeak /\ voiceModeActive /\ ~elevenLabsAvailable
               /\ ChatRepliedWith(i, reply, sid, e) )
                => /\ ttsInFlight' = ttsInFlight
                   /\ LocalFallback([text |-> reply, msgId |-> messageIdCounter'])
       /\ ((StatusResolved \/ StatusFailed) /\ ~elevenLabsAvailable')
             => /\ ttsInFlight' = ttsInFlight
                /\ LocalFallback([text |-> GREETING, msgId |-> NoMsg])]_vars

\* C34 witness: the probe has left the flag false and the greeting is
\* queued at the local engine, with no premium request in flight.
C34_Witness ==
    /\ lastOp = "-" /\ voiceModeActive /\ ~elevenLabsAvailable
    /\ lastSpeakText = [text |-> GREETING, msgId |-> NoMsg]
    /\ utt.st = "pending" /\ utt.text = GREETING /\ ttsInFlight = <<>>

\* a capture is armed, or a capture start waits for the microphone
CaptureArmed == isRecording \/ PendingStarts > 0 \/ CaptureResources > 0

\* the playback of a reply has just reached a terminal state that is not a
\* cancellation (it ended or failed on an engine), or the reply has just
\* been handed to a local engine the host does not have
ReplyPlaybackTerminated ==
    \/ lastOp \in {"playbackEnded", "replyPlaybackErrored"}
    \/ lastSpeakText.msgId # NoMsg /\ ~synthSupported

\* C35: while voice mode stays enabled, every reply playback that reaches a
\* terminal state other than cancellation is eventually followed by the
\* capture being re-armed, on a host that can start a capture.
C35_TerminalLeadsToRearm ==
    (ReplyPlaybackTerminated /\ voiceModeActive /\ CaptureReady)
       ~> (CaptureArmed \/ ~voiceModeActive)

\* C36: the 30 s timer armed by one raw-clip capture stops only that
\* capture.  mediaRecorder refers to the recorder of the latest start, whose
\* timer is the last armed; timers of equal delay fire in the order they
\* were armed.  So a timer that fires while a later one is pending belongs
\* to an earlier capture and must leave the current recorder alone.
C36_TimerStopsOnlyOwnCapture ==
    [][(AutoStopTimerFires /\ autoStopTimers > 1)
          => /\ mediaRecorder' = mediaRecorder
             /\ stoppedRecorders' = stoppedRecorders]_vars

\* C37: a probe that resolves while voice mode is off belongs to an enable
\* that was switched off meanwhile; its continuation has no effect: it
\* leaves autoSpeak as the disable left it and asks for no greeting, neither
\* from the premium engine nor from the local one.
C37_LateProbeHasNoEffect ==
    [][(~voiceModeActive /\ (StatusResolved \/ StatusFailed))
          => /\ autoSpeak' = autoSpeak
             /\ ~PlaybackStarts
             /\ ttsInFlight' = ttsInFlight
             /\ lastSpeakText' = NoSpeak]_vars

\* C38: after startNewChat the session identifier is null in memory and in
\* the store, and the reply to a request that was in flight at the reset
\* does not restore an identifier.  The request whose reply arrives in the
\* step after the reset was issued before it.
C38_StaleReplyKeepsSessionNull ==
    [][(lastOp = "newChat" /\ ChatReplied)
          => /\ currentSessionId' = NoSession
             /\ storedSessionId' = NoSession]_vars

\* C39: when a raw-clip start fails after the microphone stream has been
\* acquired, the stream is released: after the step that shows the message
\* no stream is left without a recorder to release it, and isRecording is
\* true only if a recorder is recording.
C39_FailedStartReleasesStream ==
    [][RecorderFailed
          => /\ errorShown' = MicError
             /\ leakedStreams' = 0
             /\ isRecording' => mediaRecorder' = "recording"]_vars

====
